---- MODULE Spec2Model ----
(***************************************************************************)
(* Model of scripts/docs-automation/src/index.ts: the latest-release      *)
(* extractor (extractLatestRelease) and the generate-prompt command       *)
(* (main).  Strings are sequences of one-character strings; offsets are   *)
(* 0-based as in JavaScript.                                               *)
(***************************************************************************)
EXTENDS FiniteSets, Integers, Sequences, TLC

VARIABLES
    files,          \* changelog storage: changelog path -> file state
    argv,           \* process.argv.slice(2), parsed: command, output, verbose
    pc,             \* position of main()
    cursor,         \* index into MAIN_DOC_PACKAGES of the for-of loop
    releases,       \* const releases: LatestRelease[]
    prompt,         \* const prompt = generatePrompt(releases)
    packagesInfo,   \* const packagesInfo = releases.map(...)
    written,        \* output files written so far: path -> data
    dirs,           \* directories that exist on the output side
    stdout,         \* console.log lines
    stderr,         \* console.error lines
    exitCode,       \* process exit status
    seen            \* results of direct calls of extractLatestRelease, per package

vars ==
    <<files, argv, pc, cursor, releases, prompt, packagesInfo, written, dirs,
      stdout, stderr, exitCode, seen>>

(***************************************************************************)
(* Bounds                                                                  *)
(***************************************************************************)
\* a changelog text is a concatenation of at most MaxLines pieces
MaxLines == 3

(***************************************************************************)
(* Characters and strings                                                  *)
(***************************************************************************)
Digit == {"0", "1", "2", "3", "4", "5", "6", "7", "8", "9"}

Lower == {"a", "b", "c", "d", "e", "f", "g", "h", "i", "j", "k", "l", "m", "n", "o", "p", "q", "r", "s", "t", "u", "v", "w", "x", "y", "z"}

Upper == {"A", "B", "C", "D", "E", "F", "G", "H", "I", "J", "K", "L", "M", "N", "O", "P", "Q", "R", "S", "T", "U", "V", "W", "X", "Y", "Z"}

\* [a-zA-Z0-9.]
PreReleaseChar == Lower \cup Upper \cup Digit \cup {"."}

\* ECMAScript LineTerminator, as far as the alphabet of the model goes
LineTerminator == {"\n", "\r"}

\* ECMAScript WhiteSpace and LineTerminator, as far as the alphabet goes
WhiteSpace == {" ", "\t", "\n", "\r"}

\* s.charAt(k); "" past either end
charAt(s, k) == IF k >= 0 /\ k < Len(s) THEN s[k + 1] ELSE ""

\* s.slice(a, b) for a, b >= 0: offsets past the end are clamped to s.length
slice(s, a, b) ==
    LET to == IF b > Len(s) THEN Len(s) ELSE b
    IN  IF a >= to THEN <<>> ELSE SubSeq(s, a + 1, to)

\* the least and the greatest element of a non-empty set of offsets
least(offsets) == CHOOSE j \in offsets : \A i \in offsets : j <= i

greatest(offsets) == CHOOSE j \in offsets : \A i \in offsets : j >= i

\* the first offset >= k whose character is not in class (the end of a
\* greedy class* run that starts at k), for k <= s.length
scanWhile(s, k, class) ==
    least({j \in k..Len(s) : j = Len(s) \/ s[j + 1] \notin class})

\* the last offset <= k such that s[offset .. k) is all in class
scanBack(s, k, class) ==
    greatest({j \in 0..k : j = 0 \/ s[j] \notin class})

\* String.prototype.trim
trim(s) ==
    slice(s, scanWhile(s, 0, WhiteSpace), scanBack(s, Len(s), WhiteSpace))

(***************************************************************************)
(* The version header regex                                                *)
(*   /^## \[?(\d+\.\d+\.\d+(?:-[a-zA-Z0-9.]+)?)\]?/gm                      *)
(***************************************************************************)
NoMatch == [found |-> FALSE]

\* variant of lineStart: the pattern without its ^ anchor
lineStartAnywhere(s, k) == TRUE

\* ^ under the m flag: offset 0, or right after a line terminator
lineStart(s, k) == k = 0 \/ charAt(s, k - 1) \in LineTerminator

\* One attempt of the regex at offset k: the match (index, the whole match,
\* the capture of group 1, the offset after the match) or NoMatch.  The
\* parts of the pattern follow one another, each from where the one before
\* ended; every quantifier is greedy, and none can give back characters to
\* let a later part match.

\* \]? after the capture [from, capEnd)
regexClose(s, k, from, capEnd, last) ==
    [found |-> TRUE, index |-> k, whole |-> slice(s, k, last),
     group1 |-> slice(s, from, capEnd), lastIndex |-> last]

\* the end of the capture is known
regexCaptured(s, k, from, capEnd) ==
    regexClose(s, k, from, capEnd, IF charAt(s, capEnd) = "]" THEN capEnd + 1 ELSE capEnd)

\* (?:-[a-zA-Z0-9.]+)? after the patch number, which ends at e3; the run of
\* [a-zA-Z0-9.] after the character at e3 ends at run
regexPreRelease(s, k, from, e3, run) ==
    regexCaptured(s, k, from, IF charAt(s, e3) = "-" /\ run > e3 + 1 THEN run ELSE e3)

\* \d+ (patch) from the character after the second dot, ending at e3
regexPatch(s, k, from, e2, e3) ==
    IF e3 > e2 + 1
    THEN regexPreRelease(s, k, from, e3,
                         IF e3 < Len(s) THEN scanWhile(s, e3 + 1, PreReleaseChar) ELSE e3)
    ELSE NoMatch

\* \d+\. (minor) from the character after the first dot, the digits ending at e2
regexMinor(s, k, from, e1, e2) ==
    IF e2 > e1 + 1 /\ charAt(s, e2) = "."
    THEN regexPatch(s, k, from, e2, scanWhile(s, e2 + 1, Digit))
    ELSE NoMatch

\* \d+\. (major) from offset from, the digits ending at e1
regexMajor(s, k, from, e1) ==
    IF e1 > from /\ charAt(s, e1) = "."
    THEN regexMinor(s, k, from, e1, scanWhile(s, e1 + 1, Digit))
    ELSE NoMatch

\* the capture group starts at offset from, after "## " and the optional "["
regexVersion(s, k, from) ==
    IF from < Len(s) THEN regexMajor(s, k, from, scanWhile(s, from, Digit)) ELSE NoMatch

versionHeaderRegex(s, k) ==
    IF lineStart(s, k) /\ slice(s, k, k + 3) = <<"#", "#", " ">>
    THEN regexVersion(s, k, IF charAt(s, k + 3) = "[" THEN k + 4 ELSE k + 3)
    ELSE NoMatch

\* [...content.matchAll(versionHeaderRegex)]: the matches, left to right;
\* each search finds the leftmost match at or after offset k and the next
\* one resumes at the end of that match
RECURSIVE matchAllFrom(_, _)
matchesThen(s, m) == <<m>> \o matchAllFrom(s, m.lastIndex)

matchesAmong(s, hits) ==
    IF hits = {} THEN <<>> ELSE matchesThen(s, versionHeaderRegex(s, least(hits)))

matchAllFrom(s, k) ==
    matchesAmong(s, {j \in k..(Len(s) - 1) : versionHeaderRegex(s, j).found})

matchAll(s) == matchAllFrom(s, 0)

(***************************************************************************)
(* Packages and changelog storage                                          *)
(***************************************************************************)
MAIN_DOC_PACKAGES == <<"instantsearch.js", "react-instantsearch", "vue-instantsearch">>

PackageNames == {MAIN_DOC_PACKAGES[k] : k \in 1..Len(MAIN_DOC_PACKAGES)}

PACKAGE_TO_FLAVOR ==
    [name \in PackageNames |->
        CASE name = "instantsearch.js"    -> "js"
          [] name = "react-instantsearch" -> "react"
          [] name = "vue-instantsearch"   -> "vue"]

\* variant of changelogPathOf: the path does not follow the package
changelogPathOfFirst(packageName) == <<"packages", MAIN_DOC_PACKAGES[1], "CHANGELOG.md">>

\* path.join(packagesDir, packageName, 'CHANGELOG.md'), relative to the repo root
changelogPathOf(packageName) == <<"packages", packageName, "CHANGELOG.md">>

\* the changelogs of the repository, one per package directory
ChangelogPaths == {<<"packages", name, "CHANGELOG.md">> : name \in PackageNames}

Missing == [kind |-> "missing"]

\* the path exists but cannot be read (EACCES, EISDIR, EIO ...)
Unreadable == [kind |-> "unreadable"]

File(text) == [kind |-> "file", text |-> text]

\* fs.existsSync(path)
existsSync(fs, path) == fs[path].kind # "missing"

\* fs.readFileSync(path, 'utf-8') returns, rather than throws
readSucceeds(fs, path) == fs[path].kind = "file"

\* fs.readFileSync(path, 'utf-8'), when it returns
readFileSync(fs, path) == fs[path].text

(***************************************************************************)
(* extractLatestRelease                                                    *)
(***************************************************************************)
\* the threshold of `if (section.length < 50) return null`
MinSectionLength == 50

null == [kind |-> "null"]

\* readFileSync threw: the exception leaves extractLatestRelease
Thrown == [kind |-> "throw"]

\* variant of version: firstMatch[0], the whole match
versionWholeMatch(firstMatch) == firstMatch.whole

\* const version = firstMatch[1]
version(firstMatch) == firstMatch.group1

\* variant of endIndex: the next header is not looked for
endIndexAlwaysEnd(matches, content) == Len(content)

\* const endIndex = matches.length > 1 ? matches[1].index! : content.length
endIndex(matches, content) ==
    IF Len(matches) > 1 THEN matches[2].index ELSE Len(content)

\* variant of section: the slice without trim()
sectionUntrimmed(content, matches) ==
    slice(content, matches[1].index, endIndex(matches, content))

\* const section = content.slice(startIndex, endIndex).trim()
section(content, matches) ==
    trim(slice(content, matches[1].index, endIndex(matches, content)))

\* variant of tooShort: <= for <
tooShortInclusive(sectionText) == Len(sectionText) <= MinSectionLength

\* if (section.length < 50) return null
tooShort(sectionText) == Len(sectionText) < MinSectionLength

\* the end of extractLatestRelease: the threshold and the result
releaseOf(packageName, firstMatch, sectionText) ==
    IF tooShort(sectionText)
    THEN null
    ELSE [kind        |-> "release",
          packageName |-> packageName,
          version     |-> version(firstMatch),
          content     |-> sectionText]

\* extractLatestRelease once the matches are known
extractFromMatches(content, packageName, matches) ==
    IF Len(matches) = 0
    THEN null
    ELSE releaseOf(packageName, matches[1], section(content, matches))

\* extractLatestRelease from the text that was read on
extractFromContent(content, packageName) ==
    extractFromMatches(content, packageName, matchAll(content))

\* variant of extractLatestRelease: a read failure caught and turned into null
extractSwallowingReadError(fs, changelogPath, packageName) ==
    IF ~readSucceeds(fs, changelogPath)
    THEN null
    ELSE extractFromContent(readFileSync(fs, changelogPath), packageName)

\* extractLatestRelease(changelogPath, packageName): the exception of
\* readFileSync leaves the function; otherwise null or the LatestRelease
extractLatestRelease(fs, changelogPath, packageName) ==
    IF ~readSucceeds(fs, changelogPath)
    THEN Thrown
    ELSE extractFromContent(readFileSync(fs, changelogPath), packageName)

(***************************************************************************)
(* Changelog texts                                                         *)
(***************************************************************************)
\* '## [1.2.3]\n'  (11 characters)
HeadingBracketed ==
    <<"#", "#", " ", "[", "1", ".", "2", ".", "3", "]", "\n">>

\* '## 1.2.3\n'  (9 characters)
HeadingPlain ==
    <<"#", "#", " ", "1", ".", "2", ".", "3", "\n">>

\* '## [1.2.3-beta.1]\n'  (18 characters)
HeadingPreRelease ==
    <<"#", "#", " ", "[", "1", ".", "2", ".", "3", "-", "b", "e", "t", "a", ".", "1", "]", "\n">>

\* '## [4.86.0] (2024)\n'  (19 characters)
HeadingOlder ==
    <<"#", "#", " ", "[", "4", ".", "8", "6", ".", "0", "]", " ", "(", "2", "0", "2", "4", ")", "\n">>

\* '## 2.0.0'  (8 characters)
HeadingAtEnd ==
    <<"#", "#", " ", "2", ".", "0", ".", "0">>

\* '- Fixed bug Y in component Z of widget X\n'  (41 characters)
Body40 ==
    <<"-", " ", "F", "i", "x", "e", "d", " ", "b", "u", "g", " ", "Y", " ", "i", "n", " ", "c", "o", "m", "p", "o", "n", "e", "n", "t", " ", "Z", " ", "o", "f", " ", "w", "i", "d", "g", "e", "t", " ", "X", "\n">>

\* '- Fixed bug Y in component Z of widget XY\n'  (42 characters)
Body41 ==
    <<"-", " ", "F", "i", "x", "e", "d", " ", "b", "u", "g", " ", "Y", " ", "i", "n", " ", "c", "o", "m", "p", "o", "n", "e", "n", "t", " ", "Z", " ", "o", "f", " ", "w", "i", "d", "g", "e", "t", " ", "X", "Y", "\n">>

\* '- bump\n'  (7 characters)
BodyBump ==
    <<"-", " ", "b", "u", "m", "p", "\n">>

\* '### 1.2.3\n'  (10 characters)
LineDeeper ==
    <<"#", "#", "#", " ", "1", ".", "2", ".", "3", "\n">>

\* 'see '  (4 characters)
MidLine ==
    <<"s", "e", "e", " ">>

\* ' \n'  (2 characters)
BlankLine ==
    <<" ", "\n">>

\* '\r'  (1 characters)
CarriageReturn ==
    <<"\r">>

Pieces ==
    {HeadingBracketed, HeadingPlain, HeadingPreRelease, HeadingOlder, HeadingAtEnd,
     Body40, Body41, BodyBump, LineDeeper, MidLine, BlankLine, CarriageReturn}

\* the concatenations of at most n pieces
RECURSIVE TextsOf(_)
TextsOf(n) ==
    IF n = 0
    THEN {<<>>}
    ELSE LET shorter == TextsOf(n - 1)
         IN  shorter \cup {t \o p : t \in shorter, p \in Pieces}

\* '## [4.87.0]\n- Added widget X\n- Fixed bug Y in component Z\n## [4.86.0]\n- Older entry\n'  (84 characters)
ExampleEndToEnd ==
    <<"#", "#", " ", "[", "4", ".", "8", "7", ".", "0", "]", "\n", "-", " ", "A", "d", "d", "e", "d", " ", "w", "i", "d", "g", "e", "t", " ", "X", "\n", "-", " ", "F", "i", "x", "e", "d", " ", "b", "u", "g", " ", "Y", " ", "i", "n", " ", "c", "o", "m", "p", "o", "n", "e", "n", "t", " ", "Z", "\n", "#", "#", " ", "[", "4", ".", "8", "6", ".", "0", "]", "\n", "-", " ", "O", "l", "d", "e", "r", " ", "e", "n", "t", "r", "y", "\n">>

\* '## [4.87.1]\n- bump\n'  (19 characters)
ExampleBump ==
    <<"#", "#", " ", "[", "4", ".", "8", "7", ".", "1", "]", "\n", "-", " ", "b", "u", "m", "p", "\n">>

Texts == TextsOf(MaxLines) \cup {ExampleEndToEnd, ExampleBump}

\* the changelogs the runs of the whole command are checked on
MainTexts ==
    {ExampleEndToEnd,
     ExampleBump,
     HeadingPreRelease \o Body41 \o HeadingOlder \o BodyBump,
     HeadingPlain \o Body41,
     MidLine \o HeadingPlain \o Body41}

MainFileStates == {Missing, Unreadable} \cup {File(t) : t \in MainTexts}

(***************************************************************************)
(* Output paths: String.prototype.endsWith / replace, path.join / dirname  *)
(***************************************************************************)
\* '.txt'  (4 characters)
TxtExt ==
    <<".", "t", "x", "t">>

\* '-packages.json'  (14 characters)
PackagesJsonExt ==
    <<"-", "p", "a", "c", "k", "a", "g", "e", "s", ".", "j", "s", "o", "n">>

\* 'prompt.txt'  (10 characters)
PromptTxt ==
    <<"p", "r", "o", "m", "p", "t", ".", "t", "x", "t">>

\* s.endsWith(suffix)
endsWith(s, suffix) ==
    /\ Len(s) >= Len(suffix)
    /\ slice(s, Len(s) - Len(suffix), Len(s)) = suffix

\* s.indexOf(pattern): the first offset of pattern in s, or -1
indexOf(s, pattern) ==
    LET hits == {k \in 0..(Len(s) - Len(pattern)) : slice(s, k, k + Len(pattern)) = pattern}
    IN  IF hits = {} THEN -1 ELSE CHOOSE k \in hits : \A j \in hits : k <= j

\* s.replace(pattern, replacement) with a string pattern: the FIRST
\* occurrence only (the replacement has no $ patterns)
replace(s, pattern, replacement) ==
    LET k == indexOf(s, pattern)
    IN  IF k = -1
        THEN s
        ELSE slice(s, 0, k) \o replacement \o slice(s, k + Len(pattern), Len(s))

\* path.normalize, for paths without "." and ".." segments: runs of "/" collapse
RECURSIVE normalize(_)
normalize(p) ==
    IF Len(p) < 2
    THEN p
    ELSE IF p[1] = "/" /\ p[2] = "/"
         THEN normalize(Tail(p))
         ELSE <<p[1]>> \o normalize(Tail(p))

\* path.join(a, b) for non-empty a and b
pathJoin(a, b) == normalize(a \o <<"/">> \o b)

\* the loop of path.posix.dirname: from offset i down to 1, the offset of the
\* slash that ends the directory part, or -1
RECURSIVE dirnameEnd(_, _, _)
dirnameEnd(p, i, matchedSlash) ==
    IF i < 1
    THEN -1
    ELSE IF charAt(p, i) = "/"
         THEN IF ~matchedSlash THEN i ELSE dirnameEnd(p, i - 1, TRUE)
         ELSE dirnameEnd(p, i - 1, FALSE)

\* path.dirname(p)
dirname(p) ==
    IF Len(p) = 0
    THEN <<".">>
    ELSE LET hasRoot == p[1] = "/"
             end     == dirnameEnd(p, Len(p) - 1, TRUE)
         IN  IF end = -1
             THEN IF hasRoot THEN <<"/">> ELSE <<".">>
             ELSE IF hasRoot /\ end = 1 THEN <<"/", "/">> ELSE slice(p, 0, end)

\* fs.mkdirSync(dir, { recursive: true }): dir and every ancestor of it
mkdirRecursive(existing, dir) ==
    existing \cup {slice(dir, 0, k) : k \in {j \in 1..Len(dir) : j = Len(dir) \/ dir[j + 1] = "/"}}

\* fs.writeFileSync(p, data) returns, rather than throws: the directory of p
\* exists and p is not itself a directory
writeSucceeds(existing, p) == dirname(p) \in existing /\ p \notin existing

\* fs.writeFileSync(p, data): p is created or overwritten
writeFileSync(out, p, data) ==
    {w \in out : w.path # p} \cup {[path |-> p, data |-> data]}

\* const resolvedPath = outputPath.endsWith('.txt') ? outputPath : path.join(outputPath, 'prompt.txt')
resolvedPath(outputPath) ==
    IF endsWith(outputPath, TxtExt) THEN outputPath ELSE pathJoin(outputPath, PromptTxt)

\* const jsonPath = resolvedPath.replace('.txt', '-packages.json')
jsonPath(resolved) == replace(resolved, TxtExt, PackagesJsonExt)

\* 'out'  (3 characters)
PathOut ==
    <<"o", "u", "t">>

\* 'out/'  (4 characters)
PathOutSlash ==
    <<"o", "u", "t", "/">>

\* 'p.txt'  (5 characters)
PathPTxt ==
    <<"p", ".", "t", "x", "t">>

\* 'out/p.txt'  (9 characters)
PathOutPTxt ==
    <<"o", "u", "t", "/", "p", ".", "t", "x", "t">>

\* 'a/b/p.txt'  (9 characters)
PathDeep ==
    <<"a", "/", "b", "/", "p", ".", "t", "x", "t">>

\* 'run.txt.d/prompt.txt'  (20 characters)
PathDirTxt ==
    <<"r", "u", "n", ".", "t", "x", "t", ".", "d", "/", "p", "r", "o", "m", "p", "t", ".", "t", "x", "t">>

\* 'run.txt.d'  (9 characters)
PathDirTxtNoFile ==
    <<"r", "u", "n", ".", "t", "x", "t", ".", "d">>

\* 'n.txt.txt'  (9 characters)
PathDoubleTxt ==
    <<"n", ".", "t", "x", "t", ".", "t", "x", "t">>

\* the values of --output; <<>> is no --output (or an empty one, which is falsy)
OutputPaths ==
    {<<>>, PathOut, PathOutSlash, PathPTxt, PathOutPTxt, PathDeep,
     PathDirTxt, PathDirTxtNoFile, PathDoubleTxt}

\* the command lines: generate-prompt with or without --output and
\* --verbose, and no command at all (help)
Argvs ==
    [command : {"generate-prompt"}, output : OutputPaths, verbose : BOOLEAN]
        \cup [command : {"help"}, output : {<<>>}, verbose : BOOLEAN]

\* the output side of the file system at start: the working directory, and
\* possibly a directory "out" left by an earlier run
InitialDirs == {{<<".">>}, {<<".">>, PathOut}}

(***************************************************************************)
(* generatePrompt and the packages info                                    *)
(***************************************************************************)
\* [...new Set(flavors)]: first occurrences, in order
RECURSIVE uniqueOf(_)
uniqueOf(s) ==
    IF s = <<>>
    THEN <<>>
    ELSE LET front == uniqueOf(SubSeq(s, 1, Len(s) - 1))
             last  == s[Len(s)]
         IN  IF \E k \in 1..Len(front) : front[k] = last
             THEN front
             ELSE Append(front, last)

\* the parts of the template that vary with the releases: the package list,
\* the flavors line and one "### name vversion" section per release
generatePrompt(rs) ==
    [packageList   |-> [k \in 1..Len(rs) |->
                           [name |-> rs[k].packageName, version |-> rs[k].version]],
     uniqueFlavors |-> uniqueOf([k \in 1..Len(rs) |-> PACKAGE_TO_FLAVOR[rs[k].packageName]]),
     sections      |-> [k \in 1..Len(rs) |->
                           [name    |-> rs[k].packageName,
                            version |-> rs[k].version,
                            content |-> rs[k].content]]]

NoPrompt == [packageList |-> <<>>, uniqueFlavors |-> <<>>, sections |-> <<>>]

\* releases.map((r) => ({ name: r.packageName, version: r.version }))
packagesInfoOf(rs) ==
    [k \in 1..Len(rs) |-> [name |-> rs[k].packageName, version |-> rs[k].version]]

\* variant of push: releases.unshift(release)
pushFront(rs, release) == <<release>> \o rs

\* releases.push(release)
push(rs, release) == Append(rs, release)

\* variant of noReleases: the check left out
noReleasesNever(rs) == FALSE

\* if (releases.length === 0)
noReleases(rs) == Len(rs) = 0

(***************************************************************************)
(* main                                                                    *)
(***************************************************************************)
\* main().catch((error) => { console.error('Error:', error); process.exit(1) })
Fail ==
    /\ stderr' = Append(stderr, "Error:")
    /\ exitCode' = 1
    /\ pc' = "exited"

\* the dispatch on the command, after the verbose header was logged
Dispatch(header) ==
    IF argv.command = "generate-prompt"
    THEN /\ pc' = "loop"
         /\ stdout' = stdout \o header
    ELSE /\ pc' = "exited"
         /\ stdout' = stdout \o header \o <<"Usage">>

\* argument parsing, the verbose header, and the dispatch on the command
Main ==
    /\ pc = "main"
    /\ Dispatch(IF argv.verbose THEN <<"Repo root:", "Packages dir:">> ELSE <<>>)
    /\ UNCHANGED <<files, argv, cursor, releases, prompt, packagesInfo, written,
                   dirs, stderr, exitCode, seen>>

\* the rest of an iteration, with the outcome of extractLatestRelease
AfterExtract(release) ==
    IF release = Thrown
    THEN /\ Fail
         /\ UNCHANGED <<releases, cursor, stdout>>
    ELSE IF release # null
    THEN /\ releases' = push(releases, release)
         /\ stdout' = IF argv.verbose THEN Append(stdout, "Found:") ELSE stdout
         /\ cursor' = cursor + 1
         /\ UNCHANGED <<pc, stderr, exitCode>>
    ELSE /\ stdout' = IF argv.verbose
                      THEN Append(stdout, "Skipping (no significant changes)")
                      ELSE stdout
         /\ cursor' = cursor + 1
         /\ UNCHANGED <<releases, pc, stderr, exitCode>>

\* an iteration for the package at the cursor
Iteration(packageName, changelogPath) ==
    IF ~existsSync(files, changelogPath)
    THEN /\ stdout' = IF argv.verbose
                      THEN Append(stdout, "Skipping (no CHANGELOG.md)")
                      ELSE stdout
         /\ cursor' = cursor + 1
         /\ UNCHANGED <<releases, pc, stderr, exitCode>>
    ELSE AfterExtract(extractLatestRelease(files, changelogPath, packageName))

\* one iteration of `for (const packageName of MAIN_DOC_PACKAGES)`
LoopBody ==
    /\ pc = "loop"
    /\ cursor <= Len(MAIN_DOC_PACKAGES)
    /\ Iteration(MAIN_DOC_PACKAGES[cursor], changelogPathOf(MAIN_DOC_PACKAGES[cursor]))
    /\ UNCHANGED <<files, argv, prompt, packagesInfo, written, dirs, seen>>

\* after the loop: nothing to do (process.exit(0)), or the report, the prompt
\* and the packages info
LoopEnd ==
    /\ pc = "loop"
    /\ cursor > Len(MAIN_DOC_PACKAGES)
    /\ IF noReleases(releases)
       THEN /\ stdout' = Append(stdout, "No packages with documentation needs detected")
            /\ exitCode' = 0
            /\ pc' = "exited"
            /\ UNCHANGED <<prompt, packagesInfo>>
       ELSE /\ stdout' = Append(stdout, "Found package(s) with changes:")
            /\ prompt' = generatePrompt(releases)
            /\ packagesInfo' = packagesInfoOf(releases)
            /\ pc' = "output"
            /\ UNCHANGED exitCode
    /\ UNCHANGED <<files, argv, cursor, releases, written, dirs, stderr, seen>>

\* fs.writeFileSync(resolvedPath, prompt), the directories being made
WritePromptTo(resolved, made) ==
    /\ dirs' = made
    /\ IF writeSucceeds(made, resolved)
       THEN /\ written' = writeFileSync(written, resolved, prompt)
            /\ stdout' = Append(stdout, "Prompt written to:")
            /\ pc' = "json"
            /\ UNCHANGED <<stderr, exitCode>>
       ELSE /\ Fail
            /\ UNCHANGED <<written, stdout>>

\* if (!fs.existsSync(outputDirPath)) fs.mkdirSync(outputDirPath, { recursive: true })
ensureDir(existing, outputDirPath) ==
    IF outputDirPath \notin existing
    THEN mkdirRecursive(existing, outputDirPath)
    ELSE existing

\* the prompt goes to the resolved path (its directory made first), or to stdout
WritePrompt ==
    /\ pc = "output"
    /\ IF argv.output # <<>>
       THEN WritePromptTo(resolvedPath(argv.output),
                          ensureDir(dirs, dirname(resolvedPath(argv.output))))
       ELSE /\ stdout' = Append(stdout, "prompt")
            /\ pc' = "exited"
            /\ UNCHANGED <<written, dirs, stderr, exitCode>>
    /\ UNCHANGED <<files, argv, cursor, releases, prompt, packagesInfo, seen>>

\* fs.writeFileSync(jsonPath, JSON.stringify(packagesInfo, null, 2))
WritePackagesInfoTo(target) ==
    IF writeSucceeds(dirs, target)
    THEN /\ written' = writeFileSync(written, target, packagesInfo)
         /\ stdout' = Append(stdout, "Packages info written to:")
         /\ pc' = "exited"
         /\ UNCHANGED <<stderr, exitCode>>
    ELSE /\ Fail
         /\ UNCHANGED <<written, stdout>>

\* the packages info goes to jsonPath
WritePackagesInfo ==
    /\ pc = "json"
    /\ WritePackagesInfoTo(jsonPath(resolvedPath(argv.output)))
    /\ UNCHANGED <<files, argv, cursor, releases, prompt, packagesInfo, dirs, seen>>

\* a direct call of extractLatestRelease for one package, in any order and
\* any number of times
ExtractCall(packageName) ==
    /\ seen' = [seen EXCEPT ![packageName] =
                   @ \cup {extractLatestRelease(files, changelogPathOf(packageName), packageName)}]
    /\ UNCHANGED <<files, argv, pc, cursor, releases, prompt, packagesInfo, written,
                   dirs, stdout, stderr, exitCode>>

(***************************************************************************)
(* Specifications                                                          *)
(***************************************************************************)
InitProcess ==
    /\ pc = "main"
    /\ cursor = 1
    /\ releases = <<>>
    /\ prompt = NoPrompt
    /\ packagesInfo = <<>>
    /\ written = {}
    /\ stdout = <<>>
    /\ stderr = <<>>
    /\ exitCode = 0
    /\ seen = [name \in PackageNames |-> {}]

\* the generate-prompt command on every combination of changelog states
Init ==
    /\ InitProcess
    /\ files \in [ChangelogPaths -> MainFileStates]
    /\ argv \in Argvs
    /\ dirs \in InitialDirs

Next == Main \/ LoopBody \/ LoopEnd \/ WritePrompt \/ WritePackagesInfo

Spec == Init /\ [][Next]_vars

\* extractLatestRelease as a function of the text: one changelog, every text
InitText ==
    /\ InitProcess
    /\ \E t \in Texts :
          files = [p \in ChangelogPaths |->
                      IF p[2] = MAIN_DOC_PACKAGES[1] THEN File(t) ELSE Missing]
    /\ argv = [command |-> "help", output |-> <<>>, verbose |-> FALSE]
    /\ dirs = {<<".">>}

NextText == ExtractCall(MAIN_DOC_PACKAGES[1])

SpecText == InitText /\ [][NextText]_vars

\* extractions of the three packages in any order, any number of times
NextExtract == \E packageName \in PackageNames : ExtractCall(packageName)

InitIndep ==
    /\ InitProcess
    /\ files \in [ChangelogPaths -> MainFileStates]
    /\ argv = [command |-> "help", output |-> <<>>, verbose |-> FALSE]
    /\ dirs = {<<".">>}

SpecIndep == InitIndep /\ [][NextExtract]_vars

(***************************************************************************)
(* Vocabulary of the properties.  Version headings are recognised here by  *)
(* the meaning of the pattern (some split of the line into "## ", an       *)
(* optional "[", digits "." digits "." digits), not by the scan above.     *)
(***************************************************************************)
Min(S) == CHOOSE x \in S : \A y \in S : x <= y

\* t[a .. b) is a non-empty run of digits
DigitsIn(t, a, b) == a < b /\ \A j \in a..(b - 1) : charAt(t, j) \in Digit

\* the offsets of a "." that ends a run of digits starting at a
DotsAfter(t, a) == {d \in (a + 1)..(Len(t) - 1) : charAt(t, d) = "." /\ DigitsIn(t, a, d)}

\* MAJOR.MINOR.PATCH starts at offset n
TripleAt(t, n) ==
    \E d1 \in DotsAfter(t, n) : \E d2 \in DotsAfter(t, d1 + 1) : charAt(t, d2 + 1) \in Digit

\* a line matching the version-heading pattern starts at offset k
HeadingLineAt(t, k) ==
    /\ k = 0 \/ charAt(t, k - 1) \in {"\n", "\r"}
    /\ charAt(t, k) = "#" /\ charAt(t, k + 1) = "#" /\ charAt(t, k + 2) = " "
    /\ TripleAt(t, k + 3) \/ (charAt(t, k + 3) = "[" /\ TripleAt(t, k + 4))

HeadingOffsets(t) == {k \in 0..(Len(t) - 1) : HeadingLineAt(t, k)}

FirstHeading(t) == Min(HeadingOffsets(t))

\* the start of the second heading, or end-of-text
SectionEnd(t) ==
    IF Cardinality(HeadingOffsets(t)) > 1
    THEN Min(HeadingOffsets(t) \ {FirstHeading(t)})
    ELSE Len(t)

\* the line of t that starts at offset k, without its terminator
LineAt(t, k) ==
    slice(t, k, Min({j \in k..Len(t) : j = Len(t) \/ charAt(t, j) \in {"\n", "\r"}}))

WithoutNewline(line) == slice(line, 0, Len(line) - 1)

AllWhiteSpace(s) == \A j \in 1..Len(s) : s[j] \in {" ", "\t", "\n", "\r"}

\* the changelog and the results of the calls under SpecText
FirstPackage == "instantsearch.js"

TextUnderTest == files[<<"packages", FirstPackage, "CHANGELOG.md">>].text

TextResults == seen[FirstPackage]

TextReleases == {r \in TextResults : r.kind = "release"}

\* '1.2.3'  (5 characters)
V123 ==
    <<"1", ".", "2", ".", "3">>

\* '1.2.3-beta.1'  (12 characters)
V123beta1 ==
    <<"1", ".", "2", ".", "3", "-", "b", "e", "t", "a", ".", "1">>

\* '4.87.0'  (6 characters)
V4870 ==
    <<"4", ".", "8", "7", ".", "0">>

\* '- Added widget X\n- Fixed bug Y in component Z'  (45 characters)
ExampleBullets ==
    <<"-", " ", "A", "d", "d", "e", "d", " ", "w", "i", "d", "g", "e", "t", " ", "X", "\n", "-", " ", "F", "i", "x", "e", "d", " ", "b", "u", "g", " ", "Y", " ", "i", "n", " ", "c", "o", "m", "p", "o", "n", "e", "n", "t", " ", "Z">>

\* '## [4.87.0]\n- Added widget X\n- Fixed bug Y in component Z'  (57 characters)
ExampleSection ==
    <<"#", "#", " ", "[", "4", ".", "8", "7", ".", "0", "]", "\n", "-", " ", "A", "d", "d", "e", "d", " ", "w", "i", "d", "g", "e", "t", " ", "X", "\n", "-", " ", "F", "i", "x", "e", "d", " ", "b", "u", "g", " ", "Y", " ", "i", "n", " ", "c", "o", "m", "p", "o", "n", "e", "n", "t", " ", "Z">>

(***************************************************************************)
(* Properties                                                              *)
(***************************************************************************)
\* C1: a returned body is exactly the whitespace-trimmed slice of the text
\* from the start of the first version heading up to the start of the second
\* one (end-of-text when there is none): it begins with the first heading
\* line, ends before the second heading, and holds no other heading.
BodyIsFirstSection ==
    \A r \in TextReleases :
        LET t     == TextUnderTest
            first == FirstHeading(t)
            body  == r.content
        IN  /\ HeadingOffsets(t) # {}
            /\ body = slice(t, first, first + Len(body))
            /\ first + Len(body) <= SectionEnd(t)
            /\ AllWhiteSpace(slice(t, first + Len(body), SectionEnd(t)))
            /\ body # <<>> /\ ~AllWhiteSpace(<<body[1]>>) /\ ~AllWhiteSpace(<<body[Len(body)]>>)
            /\ slice(body, 0, 3) = <<"#", "#", " ">>
            /\ HeadingOffsets(body) = {0}

\* C1 witness: a release was returned for a text with a second heading
\* and white space in front of it
BodyCutAtSecondHeading ==
    \E r \in TextReleases :
        /\ Cardinality(HeadingOffsets(TextUnderTest)) > 1
        /\ FirstHeading(TextUnderTest) + Len(r.content) < SectionEnd(TextUnderTest)

\* C2 as stated: on the end-to-end example the call returns version 4.87.0
\* and a body that is the two bullet lines only.
ExampleBodyIsBulletsOnly ==
    TextUnderTest = ExampleEndToEnd =>
        \A r \in TextResults :
            r.kind = "release" /\ r.version = V4870 /\ r.content = ExampleBullets

\* C2 amended: on the end-to-end example the call returns version 4.87.0 and
\* a body that is the "## [4.87.0]" heading line followed by the two bullet
\* lines (trimmed), without the 4.86.0 heading and what follows it.
ExampleBodyIsHeadingAndBullets ==
    TextUnderTest = ExampleEndToEnd =>
        \A r \in TextResults :
            r.kind = "release" /\ r.version = V4870 /\ r.content = ExampleSection

\* C2 witness: the call on the end-to-end example has returned
ExampleExtracted == TextUnderTest = ExampleEndToEnd /\ TextResults # {}

\* C3: a text without any line matching the version-heading pattern yields
\* absent (null), and the call does not throw.
NoHeadingIsAbsent ==
    HeadingOffsets(TextUnderTest) = {} => \A r \in TextResults : r = null

\* C3 witness: absent was returned for a text that has "## 1.2.3" in the
\* middle of a line and is long enough to pass the threshold
NoHeadingWasCalled ==
    /\ HeadingOffsets(TextUnderTest) = {}
    /\ TextUnderTest = MidLine \o HeadingPlain \o Body41
    /\ null \in TextResults

\* C4: with a heading found, a trimmed section shorter than 50 characters
\* yields absent and one of 50 characters or more is returned; the text
\* "## [4.87.1]\n- bump\n" yields absent.
ThresholdFilter ==
    /\ HeadingOffsets(TextUnderTest) # {} =>
          LET sectionText ==
                  trim(slice(TextUnderTest, FirstHeading(TextUnderTest), SectionEnd(TextUnderTest)))
          IN  \A r \in TextResults :
                  /\ r.kind # "throw"
                  /\ Len(sectionText) < 50 => r = null
                  /\ Len(sectionText) >= 50 => r.kind = "release"
    /\ TextUnderTest = ExampleBump => \A r \in TextResults : r = null

\* C4 witness: both sides of the threshold were met, a section of 49
\* characters (absent) or one of exactly 50 (returned)
ThresholdBoundaryMet ==
    \/ TextUnderTest = HeadingPlain \o Body40 /\ null \in TextResults
    \/ TextUnderTest = HeadingPlain \o Body41 /\ TextReleases # {}

\* C5: the returned version is the version string of the first heading, as
\* it stands in the text and without brackets; "## [1.2.3]" and "## 1.2.3"
\* both give "1.2.3", and "## [1.2.3-beta.1]" gives "1.2.3-beta.1".
VersionOfFirstHeading ==
    \A r \in TextReleases :
        LET t       == TextUnderTest
            first   == FirstHeading(t)
            heading == LineAt(t, first)
            from    == IF charAt(t, first + 3) = "[" THEN first + 4 ELSE first + 3
        IN  /\ r.version = slice(t, from, from + Len(r.version))
            /\ \A j \in 1..Len(r.version) : r.version[j] \notin {"[", "]"}
            /\ charAt(t, from + Len(r.version)) \notin Digit
            /\ heading = WithoutNewline(HeadingBracketed) => r.version = V123
            /\ heading = WithoutNewline(HeadingPlain) => r.version = V123
            /\ heading = WithoutNewline(HeadingPreRelease) => r.version = V123beta1

\* C5 witness: a release was returned for a text whose first heading is the
\* bracketed pre-release one and whose second heading names another version
PreReleaseVersionReturned ==
    \E r \in TextReleases :
        /\ LineAt(TextUnderTest, FirstHeading(TextUnderTest)) = WithoutNewline(HeadingPreRelease)
        /\ Cardinality(HeadingOffsets(TextUnderTest)) > 1
        /\ r.version = V123beta1

\* the changelog of the k-th package exists but cannot be read, and the loop
\* has come to it
ReadFailedAt(k) ==
    /\ argv.command = "generate-prompt"
    /\ files[<<"packages", MAIN_DOC_PACKAGES[k], "CHANGELOG.md">>] = Unreadable
    /\ pc # "main"
    /\ cursor > k \/ (cursor = k /\ pc # "loop")

\* C6: once the read of an existing changelog has failed, the run has not gone
\* on to a later package: it has reported the error and ended with a non-zero
\* status, and no prompt file and no packages-info file has been written.
ReadFailureIsFatal ==
    \A k \in 1..Len(MAIN_DOC_PACKAGES) :
        ReadFailedAt(k) =>
            /\ cursor = k
            /\ pc = "exited"
            /\ exitCode # 0
            /\ stderr # <<>>
            /\ written = {}
            /\ prompt = NoPrompt
            /\ Len(releases) < k

\* C6 witness: the read failed after an earlier package had been extracted
ReadFailedAfterRelease ==
    \E k \in 2..Len(MAIN_DOC_PACKAGES) :
        ReadFailedAt(k) /\ Len(releases) > 0 /\ pc = "exited"

\* the package is extracted: its changelog exists and its extraction is not absent
Extracted(name) ==
    LET file == files[<<"packages", name, "CHANGELOG.md">>]
    IN  file.kind = "file" /\ extractFromContent(file.text, name) # null

NoReadFailure ==
    \A name \in PackageNames : files[<<"packages", name, "CHANGELOG.md">>] # Unreadable

\* C7: when every package is missing its changelog or yields absent, the
\* generate-prompt run reports that there is nothing to do and exits with
\* status 0; no prompt is generated and no file is written.
NothingToDoIsCleanExit ==
    (argv.command = "generate-prompt" /\ NoReadFailure
        /\ \A name \in PackageNames : ~Extracted(name)) =>
        /\ pc \in {"main", "loop", "exited"}
        /\ prompt = NoPrompt
        /\ packagesInfo = <<>>
        /\ written = {}
        /\ stderr = <<>>
        /\ pc = "exited" =>
              /\ exitCode = 0
              /\ stdout # <<>>
              /\ stdout[Len(stdout)] = "No packages with documentation needs detected"

\* C7 witness: the run ended with nothing to do, one changelog missing and
\* another one read but absent, and an --output path given
NothingToDoReached ==
    /\ argv.command = "generate-prompt" /\ argv.output # <<>>
    /\ pc = "exited"
    /\ \A name \in PackageNames : ~Extracted(name)
    /\ \E name \in PackageNames : files[<<"packages", name, "CHANGELOG.md">>] = Missing
    /\ \E name \in PackageNames : files[<<"packages", name, "CHANGELOG.md">>].kind = "file"

IsExtracted(k) == Extracted(MAIN_DOC_PACKAGES[k])

\* the extracted packages, in the order of MAIN_DOC_PACKAGES
ExtractedInOrder == SelectSeq(<<1, 2, 3>>, IsExtracted)

ExpectedRelease(k) ==
    extractFromContent(files[<<"packages", MAIN_DOC_PACKAGES[k], "CHANGELOG.md">>].text,
                       MAIN_DOC_PACKAGES[k])

ExpectedPackagesInfo ==
    LET order == ExtractedInOrder
    IN  [j \in 1..Len(order) |->
            [name    |-> MAIN_DOC_PACKAGES[order[j]],
             version |-> ExpectedRelease(order[j]).version]]

\* the prompt and the packages info have been produced
Produced == pc \in {"output", "json"} \/ (pc = "exited" /\ prompt # NoPrompt)

\* C8: the packages info, the package list and the per-release sections of
\* the prompt, and the packages-info file when written, hold exactly one
\* entry per extracted package, in the order instantsearch.js,
\* react-instantsearch, vue-instantsearch; skipped packages leave the other
\* entries as they are.
PackagesInfoIsExtractedInOrder ==
    Produced =>
        LET expected == ExpectedPackagesInfo
            order    == ExtractedInOrder
        IN  /\ packagesInfo = expected
            /\ prompt.packageList = expected
            /\ Len(prompt.sections) = Len(expected)
            /\ \A j \in 1..Len(prompt.sections) :
                  /\ prompt.sections[j].name = expected[j].name
                  /\ prompt.sections[j].version = expected[j].version
                  /\ prompt.sections[j].content = ExpectedRelease(order[j]).content
            /\ \A w \in written :
                  w.path = jsonPath(resolvedPath(argv.output)) => w.data = expected

\* C8 witness: the packages-info file was written with two entries, the
\* middle package having been skipped
MiddlePackageSkipped ==
    /\ pc = "exited"
    /\ ExtractedInOrder = <<1, 3>>
    /\ Len(packagesInfo) = 2
    /\ \E w \in written :
          w.path = jsonPath(resolvedPath(argv.output)) /\ w.data = packagesInfo

\* what a call for the package returns, from its own changelog and label alone
OwnResult(name) ==
    LET file == files[<<"packages", name, "CHANGELOG.md">>]
    IN  IF file.kind = "file" THEN extractFromContent(file.text, name) ELSE Thrown

SidecarOf(p) == slice(p, 0, Len(p) - 4) \o PackagesJsonExt

\* C10 as stated: a generate-prompt run with --output and at least one
\* release, once over, has written the prompt to the resolved path P and the
\* packages info next to it, at P with its trailing ".txt" replaced by
\* "-packages.json".
SidecarNextToPrompt ==
    (pc = "exited" /\ argv.output # <<>> /\ Produced) =>
        LET p == IF endsWith(argv.output, TxtExt)
                 THEN argv.output
                 ELSE pathJoin(argv.output, PromptTxt)
        IN  /\ \E w \in written : w.path = p /\ w.data = prompt
            /\ \E w \in written : w.path = SidecarOf(p) /\ w.data = packagesInfo
            /\ dirname(SidecarOf(p)) = dirname(p)

====
